---- MODULE Spec2Model ----
(***************************************************************************)
(* Obliterator: the certificate API (certificate_api/main.py) and the      *)
(* login client (obliterator_login/login_system.py).                       *)
(*                                                                         *)
(* Text is modelled as a sequence of atoms (short strings); concatenation  *)
(* is \o.  An optional value is a sequence of length 0 (None) or 1.        *)
(* An HTTP outcome is the status as a string, or "exc" when the requests   *)
(* library raises instead of returning a response.                         *)
(***************************************************************************)
EXTENDS Integers, Sequences, FiniteSets, TLC

\* ------------------------------------------------------------------ bounds
MaxCerts == 2      \* certificate ids the API may draw
MaxSkew == 1       \* how far a clock may advance between two reads of one call
MaxAttempts == 2   \* sign-in attempts the user may start
MaxClock == 26     \* last hour the session clock ticks to

\* ------------------------------------------------------- program constants
TTL == 24          \* timedelta(hours=24)

\* ----------------------------------------------------------------- helpers
None == <<>>
Some(x) == <<x>>

\* str.replace(old, new) for a one-atom old
Replace(s, old, new) == [i \in 1..Len(s) |-> IF s[i] = old THEN new ELSE s[i]]

\* str.replace(old, "")
RemoveAll(s, old) == SelectSeq(s, LAMBDA x : x # old)

\* str.startswith(prefix) for a one-atom prefix
StartsWith(s, prefix) == Len(s) > 0 /\ s[1] = prefix

\* mutation of Contains: every text is taken to hold sub
Contains_anything(s, sub) == TRUE

\* sub in s
Contains(s, sub) == \E i \in 1..Len(s) : s[i] = sub

VARIABLES
    \* --- certificate API and the remote services behind it
    storage,        \* object keys held by the remote object store
    certificates,   \* rows of the remote certificates table
    nextUuid,       \* how many uuid4 values have been drawn
    apiResp,        \* the HTTP response of the last request
    apiCalls,       \* remote calls the last request made, in order
    apiReq,         \* the last request and what the services answered
    uploadFailed,   \* certificate ids whose upload was answered non-success
    \* --- session store
    clock,          \* datetime.now(), in hours
    session_file,   \* content of .session_data
    session_data,   \* SessionManager.session_data
    sessOp,         \* last session-store operation and what it returned
    \* --- login client
    usersTable,     \* rows of the remote Users table
    connection_info, \* the connection label, and the check that set its text
    current_user,   \* AuthManager.current_user
    access_token,   \* AuthManager.access_token
    workers,        \* sign-in threads in flight
    assigning,      \* sign-in threads between their two assignments of the fields
    afterQueue,     \* results handed to the main loop with after(0, ...)
    attempts,       \* sign-in threads started so far
    submitted,      \* the call of handle_login whose message the status label shows
    login_button,   \* state of the Sign In button
    status_label,   \* text of the status label
    remember_var,   \* the Remember me checkbox
    lastResult,     \* the result the main loop handled last
    pendingSuccess, \* the on_login_success call scheduled with after(500, ...)
    window,         \* the login window: "uninitialized" before LoginSystem(), "unbuilt",
                    \* "open", "destroyed", or "failed" when its constructor raised
    authenticated,  \* LoginSystem.authenticated
    user_data,      \* LoginSystem.user_data
    previous_run    \* what handle_logout ended before it restarted the application

apiVars == <<storage, certificates, nextUuid, apiResp, apiCalls, apiReq, uploadFailed>>
sessVars == <<clock, session_file, session_data, sessOp>>
authVars == <<usersTable, previous_run, connection_info, current_user, access_token,
              workers, assigning, afterQueue, attempts, submitted, login_button,
              status_label, remember_var, lastResult, pendingSuccess, window, authenticated,
              user_data>>
vars == <<apiVars, sessVars, authVars>>

(***************************************************************************)
(* Certificate API                                                         *)
(***************************************************************************)
SUPABASE_URL == <<"https://proj.supabase.co", "/">>

\* identities the remote identity service issued bearer tokens for
ServiceUsers ==
    (<<"tokA">> :> [id |-> <<"u1">>, email |-> <<"a@b.com">>]) @@
    (<<"tokB">> :> [id |-> <<"u2">>, email |-> <<"c@d.com">>])

Authorizations ==
    { <<>>,
      <<"Bearer ", "tokA">>,
      <<"Bearer ", "Bearer ", "tokB">>,
      <<"Bearer ", "table_auth_", "7">>,
      <<"Bearer ">>,
      <<"Basic ", "tokA">>,
      <<"tokA">> }

DeviceModels == { <<"X1">>, <<"Mac", " ", "Pro", "/", "2">> }

UploadStatuses == {"200", "403", "exc"}
InsertStatuses == {"201", "409", "exc"}

\* what GET /auth/v1/user may answer for a token
VerifyStatuses(token) ==
    {"401", "exc"} \cup (IF token \in DOMAIN ServiceUsers THEN {"200"} ELSE {})

\* str.rstrip('/')
RECURSIVE RStripSlash(_)
RStripSlash(s) ==
    IF Len(s) > 0 /\ s[Len(s)] = "/" THEN RStripSlash(SubSeq(s, 1, Len(s) - 1)) ELSE s

ClientUrl == RStripSlash(SUPABASE_URL)

\* mutation of verify_user: a token the service once issued is taken as
\* verified whatever the service answers now
verify_user_cached(token, vout) ==
    IF token \in DOMAIN ServiceUsers THEN Some(ServiceUsers[token]) ELSE None

\* mutation of verify_user: the token is taken at its word
verify_user_trusting(token, vout) == Some([id |-> token, email |-> <<>>])

verify_user(token, vout) ==
    IF vout = "200" THEN Some(ServiceUsers[token]) ELSE None

upload_url(bucket, filename) ==
    ClientUrl \o <<"/storage/v1/object/">> \o bucket \o <<"/">> \o filename

\* mutation of get_public_url: the upload address is handed out as the public one
get_public_url_upload(bucket, filename) == upload_url(bucket, filename)

get_public_url(bucket, filename) ==
    ClientUrl \o <<"/storage/v1/object/public/">> \o bucket \o <<"/">> \o filename

\* the object store: the key a POST to url creates, and the URL it serves it at
ObjectKey(url) ==
    SubSeq(url, Len(ClientUrl \o <<"/storage/v1/object/">>) + 1, Len(url))

ServedAt(key) == ClientUrl \o <<"/storage/v1/object/public/">> \o key

Uuid(n) == <<"uuid", ToString(n)>>

safe_model(model) == Replace(Replace(model, " ", "_"), "/", "_")

Filename(user_id, model, certificate_id) ==
    <<"cert_">> \o user_id \o <<"_">> \o safe_model(model) \o <<"_">>
        \o certificate_id \o <<".pdf">>

AuthHeaderOk(authorization) == StartsWith(authorization, "Bearer ")

\* mutation of UploadOk: the upload's status is not looked at
UploadOk_unchecked(status) == TRUE

UploadOk(status) == status \in {"200", "201"}

\* mutation of InsertOk: the insert's status is not looked at
InsertOk_unchecked(status) == TRUE

InsertOk(status) == status \in {"200", "201"}

\* a raised HTTPException, a raised other exception, or the returned body
Raised(status, detail) == [kind |-> "http", status |-> status, detail |-> detail]
RaisedOther(detail) == [kind |-> "exc", status |-> "", detail |-> detail]

NoBody == [certificate_id |-> <<>>, pdf_url |-> <<>>, created_at |-> 0,
           user_id |-> <<>>, device_model |-> <<>>]

\* the body of the two list endpoints
NoList == [user_id |-> <<>>, device_model |-> <<>>, certificates |-> <<>>, count |-> 0]

\* the request a handler serves, what the services answered it, and what the
\* database query carried and returned
NoRequest == [endpoint |-> "", authorization |-> <<>>, model |-> <<>>, vout |-> "",
              uout |-> "", iout |-> "", certificate_id |-> <<>>, key |-> <<>>,
              newRows |-> {}, limit |-> 0, offset |-> 0, sout |-> "",
              params |-> <<>>, data |-> <<>>]

\* the except Exception clause around the whole handler body
WrapExcept(prefix, status, raised) ==
    [status |-> status,
     detail |-> <<prefix>> \o (IF raised.kind = "http" THEN <<raised.status, ": ">> ELSE <<>>)
                    \o raised.detail,
     body |-> NoBody,
     list |-> NoList]

GenerateExcept(raised) == WrapExcept("Error generating certificate: ", "500", raised)

generate_certificate(authorization, model, vout, uout, iout, t1, t2) ==
    LET token == RemoveAll(authorization, "Bearer ")
        user_info == verify_user(token, vout)
        user_id == user_info[1].id
        user_email == user_info[1].email
        certificate_id == Uuid(nextUuid + 1)
        filename == Filename(user_id, model, certificate_id)
        key == ObjectKey(upload_url(<<"certificates">>, filename))
        pdf_url == get_public_url(<<"certificates">>, filename)
        certificate_data == [certificate_id |-> certificate_id, user_id |-> user_id,
                             user_email |-> user_email, model |-> model,
                             pdf_url |-> pdf_url, created_at |-> t1]
        req == [NoRequest EXCEPT !.endpoint = "generate", !.authorization = authorization,
                                 !.model = model, !.vout = vout, !.uout = uout,
                                 !.iout = iout]
        drawn == [req EXCEPT !.certificate_id = certificate_id, !.key = key]
    IN
    IF ~AuthHeaderOk(authorization) THEN
        /\ apiResp' = GenerateExcept(Raised("401", <<"Missing or invalid authorization header">>))
        /\ apiCalls' = <<>>
        /\ apiReq' = [req EXCEPT !.vout = "", !.uout = "", !.iout = ""]
        /\ UNCHANGED <<storage, certificates, nextUuid, uploadFailed>>
    ELSE IF vout = "exc" THEN
        /\ apiResp' = GenerateExcept(RaisedOther(<<"ConnectionError">>))
        /\ apiCalls' = <<"verify">>
        /\ apiReq' = [req EXCEPT !.uout = "", !.iout = ""]
        /\ UNCHANGED <<storage, certificates, nextUuid, uploadFailed>>
    ELSE IF user_info = None THEN
        /\ apiResp' = GenerateExcept(Raised("401", <<"Invalid authentication token">>))
        /\ apiCalls' = <<"verify">>
        /\ apiReq' = [req EXCEPT !.uout = "", !.iout = ""]
        /\ UNCHANGED <<storage, certificates, nextUuid, uploadFailed>>
    ELSE
        /\ nextUuid < MaxCerts
        /\ nextUuid' = nextUuid + 1
        /\ storage' = IF uout \in {"200", "201"} THEN storage \cup {key} ELSE storage
        /\ uploadFailed' = IF uout \in {"200", "201"} THEN uploadFailed
                           ELSE uploadFailed \cup {certificate_id}
        /\ IF uout = "exc" THEN
               /\ apiResp' = GenerateExcept(RaisedOther(<<"ConnectionError">>))
               /\ apiCalls' = <<"verify", "upload">>
               /\ apiReq' = [drawn EXCEPT !.iout = ""]
               /\ UNCHANGED certificates
           ELSE IF ~UploadOk(uout) THEN
               /\ apiResp' = GenerateExcept(Raised("500", <<"Failed to upload PDF: ", uout>>))
               /\ apiCalls' = <<"verify", "upload">>
               /\ apiReq' = [drawn EXCEPT !.iout = ""]
               /\ UNCHANGED certificates
           ELSE
               /\ apiCalls' = <<"verify", "upload", "insert">>
               /\ certificates' = IF iout \in {"200", "201"}
                                  THEN certificates \cup {certificate_data}
                                  ELSE certificates
               /\ apiReq' = [drawn EXCEPT !.newRows = certificates' \ certificates]
               /\ IF iout = "exc" THEN
                      apiResp' = GenerateExcept(RaisedOther(<<"ConnectionError">>))
                  ELSE IF ~InsertOk(iout) THEN
                      apiResp' = GenerateExcept(
                          Raised("500", <<"Failed to store certificate in database: ", iout>>))
                  ELSE
                      apiResp' = [status |-> "200",
                                  detail |-> <<"Certificate generated and stored successfully">>,
                                  body |-> [certificate_id |-> certificate_id,
                                            pdf_url |-> pdf_url,
                                            created_at |-> t2,
                                            user_id |-> user_id,
                                            device_model |-> model],
                                  list |-> NoList]

GenerateCertificate ==
    \E authorization \in Authorizations, model \in DeviceModels :
      \E vout \in VerifyStatuses(RemoveAll(authorization, "Bearer ")),
         uout \in UploadStatuses, iout \in InsertStatuses, t2 \in 0..MaxSkew :
        \* an answer is drawn only for a call the handler can come to make
        /\ ~AuthHeaderOk(authorization) => vout = "401"
        /\ vout # "200" => uout = "exc"
        /\ uout = "exc" => iout = "exc"
        /\ (uout = "exc" \/ iout = "exc") => t2 = 0
        /\ generate_certificate(authorization, model, vout, uout, iout, 0, t2)
        /\ UNCHANGED <<sessVars, authVars>>

\* what GET /rest/v1/certificates may answer
SelectStatuses == {"200", "500", "exc"}

\* the limit and offset query parameters a client may send
Limits == {0, 1, 10}
Offsets == {0, 1}

\* the Authorization headers the list endpoints are called with
ListAuthorizations ==
    { <<>>,
      <<"Bearer ", "tokA">>,
      <<"Bearer ", "table_auth_", "7">> }

\* the rows of the certificates table in the order the database returns them
RECURSIVE RowsFrom(_)
RowsFrom(n) ==
    IF n > nextUuid THEN <<>>
    ELSE SelectSeq(<<n>>, LAMBDA k : \E r \in certificates : r.certificate_id = Uuid(k))
             \o RowsFrom(n + 1)

TableRowsInOrder ==
    LET ns == RowsFrom(1)
    IN  [i \in 1..Len(ns) |-> CHOOSE r \in certificates : r.certificate_id = Uuid(ns[i])]

\* select_records: the query parameters it builds; a filter, limit or offset
\* that is falsy is left out
select_params(filters, limit, offset) ==
    [filters |-> filters,
     limit |-> IF limit # 0 THEN Some(limit) ELSE None,
     offset |-> IF offset # 0 THEN Some(offset) ELSE None]

\* the database: rows matching every eq. filter, from offset on, at most limit
Matches(row, filters) ==
    /\ row.user_id = filters.user_id
    /\ filters.model # None => row.model = filters.model[1]

DbSelect(params) ==
    LET matching == SelectSeq(TableRowsInOrder, LAMBDA r : Matches(r, params.filters))
        first == IF params.offset = None THEN 1 ELSE params.offset[1] + 1
        wanted == IF params.limit = None THEN Len(matching) ELSE params.limit[1]
        last == IF first + wanted - 1 > Len(matching) THEN Len(matching)
                ELSE first + wanted - 1
    IN  SubSeq(matching, first, last)

MyCertificatesExcept(raised) == WrapExcept("Error retrieving certificates: ", "500", raised)

ByDeviceExcept(raised) ==
    WrapExcept("Error retrieving device certificates: ", "500", raised)

\* the except clause of the handler serving endpoint
ListExcept(endpoint, raised) ==
    IF endpoint = "my" THEN MyCertificatesExcept(raised) ELSE ByDeviceExcept(raised)

\* the part the two list handlers share: the header check, verify_user and
\* select_records, under the handler's own except clause
list_certificates(endpoint, authorization, model, limit, offset, vout, sout) ==
    LET token == RemoveAll(authorization, "Bearer ")
        user_info == verify_user(token, vout)
        user_id == user_info[1].id
        params == select_params([user_id |-> user_id, model |-> model], limit, offset)
        data == DbSelect(params)
        req == [NoRequest EXCEPT !.endpoint = endpoint, !.authorization = authorization,
                                 !.model = IF model = None THEN <<>> ELSE model[1],
                                 !.limit = limit, !.offset = offset, !.vout = vout]
        sent == [req EXCEPT !.sout = sout, !.params = Some(params)]
    IN
    /\ UNCHANGED <<storage, certificates, nextUuid, uploadFailed>>
    /\ IF ~AuthHeaderOk(authorization) THEN
           /\ apiResp' = ListExcept(endpoint, Raised("401", <<"Missing or invalid authorization header">>))
           /\ apiCalls' = <<>>
           /\ apiReq' = [req EXCEPT !.vout = ""]
       ELSE IF vout = "exc" THEN
           /\ apiResp' = ListExcept(endpoint, RaisedOther(<<"ConnectionError">>))
           /\ apiCalls' = <<"verify">>
           /\ apiReq' = req
       ELSE IF user_info = None THEN
           /\ apiResp' = ListExcept(endpoint, Raised("401", <<"Invalid authentication token">>))
           /\ apiCalls' = <<"verify">>
           /\ apiReq' = req
       ELSE
           /\ apiCalls' = <<"verify", "select">>
           /\ IF sout = "exc" THEN
                  /\ apiResp' = ListExcept(endpoint, RaisedOther(<<"ConnectionError">>))
                  /\ apiReq' = sent
              ELSE IF sout # "200" THEN
                  /\ apiResp' = ListExcept(endpoint, Raised("500", <<"Database error: ", sout>>))
                  /\ apiReq' = sent
              ELSE IF endpoint = "by_device" /\ data = <<>> THEN
                  /\ apiResp' = ListExcept(endpoint, Raised("404",
                                  <<"No certificates found for device model: ">> \o model[1]))
                  /\ apiReq' = sent
              ELSE
                  /\ apiResp' = [status |-> "200", detail |-> <<>>, body |-> NoBody,
                                 list |-> [user_id |-> IF endpoint = "my" THEN user_id ELSE <<>>,
                                           device_model |-> IF model = None THEN <<>>
                                                            ELSE model[1],
                                           certificates |-> data,
                                           count |-> Len(data)]]
                  /\ apiReq' = [sent EXCEPT !.data = data]

\* GET /my-certificates
GetMyCertificates ==
    \E authorization \in ListAuthorizations, limit \in Limits, offset \in Offsets :
      \E vout \in VerifyStatuses(RemoveAll(authorization, "Bearer ")),
         sout \in SelectStatuses :
        \* an answer is drawn only for a call the handler comes to make, and
        \* other values than the defaults only for a query that is sent
        /\ ~AuthHeaderOk(authorization) => vout = "401"
        /\ vout # "200" => sout = "exc" /\ limit = 10 /\ offset = 0
        /\ list_certificates("my", authorization, None, limit, offset, vout, sout)
        /\ UNCHANGED <<sessVars, authVars>>

\* GET /certificates-by-device/{model}
GetCertificatesByDevice ==
    \E authorization \in ListAuthorizations, model \in DeviceModels :
      \E vout \in VerifyStatuses(RemoveAll(authorization, "Bearer ")),
         sout \in SelectStatuses :
        \* an answer is drawn only for a call the handler comes to make
        /\ ~AuthHeaderOk(authorization) => vout = "401"
        /\ vout # "200" => sout = "exc"
        /\ list_certificates("by_device", authorization, Some(model), 0, 0, vout, sout)
        /\ UNCHANGED <<sessVars, authVars>>

ApiInit ==
    /\ storage = {}
    /\ certificates = {}
    /\ nextUuid = 0
    /\ apiResp = [status |-> "", detail |-> <<>>, body |-> NoBody, list |-> NoList]
    /\ apiCalls = <<>>
    /\ apiReq = NoRequest
    /\ uploadFailed = {}

(***************************************************************************)
(* Session store (SessionManager)                                          *)
(***************************************************************************)
Users ==
    { [id |-> <<"u1">>, email |-> <<"a", "@", "b.com">>, table_auth |-> FALSE],
      [id |-> <<"7">>, email |-> <<"a", "@", "b.com">>, table_auth |-> TRUE] }

\* datetime.isoformat() and datetime.fromisoformat(); a text that is no ISO
\* date makes fromisoformat raise ValueError
isoformat(t) == [iso |-> TRUE, t |-> t]
NotADate == [iso |-> FALSE, t |-> 0]
\* "1970-01-01": earlier than every reading of the clock
EpochIso == [iso |-> TRUE, t |-> -1]

\* json.dumps / json.loads and base64.b64encode / b64decode; text that is not
\* JSON, or not base64, makes the decoder raise
NoObj == [user |-> None, timestamp |-> NotADate, remember_me |-> FALSE, expires |-> None]
json_dumps(obj) == [json |-> TRUE, obj |-> obj]
b64encode(data) == [b64 |-> TRUE, data |-> data]
NotJson == [json |-> FALSE, obj |-> NoObj]
NotBase64 == [b64 |-> FALSE, data |-> NotJson]

SessionInfo(user, remember_me, now1, now2) ==
    [user |-> Some(user),
     timestamp |-> isoformat(now1),
     remember_me |-> remember_me,
     expires |-> Some(isoformat(now2 + TTL))]

\* mutation of save_session: the file is written only when remember_me is set
save_session_if_remembered(user, remember_me, d) ==
    LET session_info == SessionInfo(user, remember_me, clock, clock + d) IN
        /\ clock + d <= MaxClock
        /\ clock' = clock + d
        /\ session_file' = IF remember_me THEN Some(b64encode(json_dumps(session_info)))
                           ELSE session_file
        /\ session_data' = Some(session_info)

\* save_session: the clock is read twice and may advance by d in between
save_session(user, remember_me, d) ==
    LET session_info == SessionInfo(user, remember_me, clock, clock + d)
        encrypted_data == b64encode(json_dumps(session_info))
    IN  /\ clock + d <= MaxClock
        /\ clock' = clock + d
        /\ session_file' = Some(encrypted_data)
        /\ session_data' = Some(session_info)

\* the expiry load_session and is_valid_session read: .get("expires", "1970-01-01")
ExpiresText(obj) == IF obj.expires = None THEN EpochIso ELSE obj.expires[1]

\* mutation of LoadExpired: load_session never finds a session expired
LoadExpired_never(now, expires) == FALSE

LoadExpired(now, expires) == now > expires

ValidAt(now, expires) == now < expires

\* mutation of clear_session: the file is left in place
clear_session_memory_only ==
    /\ session_data' = None
    /\ UNCHANGED session_file

\* clear_session: os.remove when the file exists, then the in-memory reset
clear_session ==
    /\ session_file' = None
    /\ session_data' = None

\* load_session, with the value it returns
load_session(ret) ==
    IF session_file = None THEN
        /\ ret = None
        /\ UNCHANGED <<session_file, session_data>>
    ELSE
        LET encrypted_data == session_file[1]
            decodes == encrypted_data.b64 /\ encrypted_data.data.json
            obj == encrypted_data.data.obj
        IN  IF ~decodes \/ ~ExpiresText(obj).iso THEN
                \* except Exception: clear_session(), return None
                /\ ret = None
                /\ clear_session
            ELSE IF LoadExpired(clock, ExpiresText(obj).t) THEN
                /\ ret = None
                /\ clear_session
            ELSE
                /\ ret = Some(obj)
                /\ session_data' = Some(obj)
                /\ UNCHANGED session_file

is_valid_session ==
    IF session_data = None THEN FALSE
    ELSE IF ~ExpiresText(session_data[1]).iso THEN FALSE
    ELSE ValidAt(clock, ExpiresText(session_data[1]).t)

\* fault names the I/O errors the call met, raised whether one left the call
NoOp == [op |-> "none", prev |-> "none", ret |-> None, valid |-> FALSE,
         found |-> None, existed |-> FALSE, prevExisted |-> FALSE, raised |-> FALSE,
         at |-> 0, fault |-> {}]

SaveSession ==
    \E user \in Users, remember_me \in BOOLEAN, d \in 0..MaxSkew :
        /\ save_session(user, remember_me, d)
        /\ sessOp' = [NoOp EXCEPT !.op = "save", !.prev = sessOp.op, !.prevExisted = sessOp.existed,
                                  !.existed = (session_file # None), !.at = clock]
        /\ UNCHANGED <<apiVars, authVars>>

LoadSession ==
    \E ret \in {None} \cup {Some(session_file[i].data.obj) : i \in 1..Len(session_file)} :
        /\ load_session(ret)
        /\ sessOp' = [NoOp EXCEPT !.op = "load", !.prev = sessOp.op, !.prevExisted = sessOp.existed, !.ret = ret,
                                  !.found = session_file,
                                  !.existed = (session_file # None), !.at = clock]
        /\ UNCHANGED <<clock, apiVars, authVars>>

ClearSession ==
    /\ clear_session
    /\ sessOp' = [NoOp EXCEPT !.op = "clear", !.prev = sessOp.op, !.prevExisted = sessOp.existed,
                              !.existed = (session_file # None), !.at = clock]
    /\ UNCHANGED <<clock, apiVars, authVars>>

IsValidSession ==
    /\ sessOp' = [NoOp EXCEPT !.op = "is_valid", !.prev = sessOp.op, !.prevExisted = sessOp.existed,
                              !.valid = is_valid_session,
                              !.existed = (session_file # None), !.at = clock]
    /\ UNCHANGED <<clock, session_file, session_data, apiVars, authVars>>

Tick ==
    /\ clock < MaxClock
    /\ clock' = clock + 1
    /\ UNCHANGED <<session_file, session_data, sessOp, apiVars, authVars>>

\* ---- the same operations on a disk that can fail
\* what open(), f.write(), f.read() and os.remove() may do: work, or raise
\* OSError; "write" is f.write() raising after open(..., 'w') has truncated
WriteFaults == {"none", "open", "write"}
ReadFaults == {"none", "read"}
RemoveFaults == {"none", "remove"}

\* what a file holds when the writing of it stopped part-way: nothing or a
\* prefix that is no base64, or base64 of a text that is no JSON
PartialFiles == { Some(NotBase64), Some(b64encode(NotJson)) }

\* save_session: an OSError in the with block is logged, and the assignment to
\* session_data after the write is skipped
save_session_io(user, remember_me, d, fault, partial) ==
    IF fault = "none" THEN save_session(user, remember_me, d)
    ELSE /\ clock + d <= MaxClock
         /\ clock' = clock + d
         /\ session_file' = IF fault = "open" THEN session_file ELSE partial
         /\ UNCHANGED session_data

\* clear_session: an OSError of os.remove is logged, and the reset of
\* session_data after it is skipped
clear_session_io(fault) ==
    IF session_file # None /\ fault = "remove" THEN UNCHANGED <<session_file, session_data>>
    ELSE clear_session

\* load_session: an OSError of the read goes to the except clause, which calls
\* clear_session; session_data has been assigned when the text decoded
load_session_io(ret, readFault, removeFault) ==
    IF session_file = None THEN load_session(ret)
    ELSE IF readFault = "read" THEN
        /\ ret = None
        /\ clear_session_io(removeFault)
    ELSE
        LET encrypted_data == session_file[1]
            decodes == encrypted_data.b64 /\ encrypted_data.data.json
            obj == encrypted_data.data.obj
        IN  IF ~decodes THEN
                /\ ret = None
                /\ clear_session_io(removeFault)
            ELSE IF ~ExpiresText(obj).iso \/ LoadExpired(clock, ExpiresText(obj).t) THEN
                /\ ret = None
                /\ IF removeFault = "remove"
                   THEN session_data' = Some(obj) /\ UNCHANGED session_file
                   ELSE clear_session
            ELSE load_session(ret)

\* ---- the process killed while save_session runs
\* where the kill falls: before open(..., 'w'), after it has truncated the
\* file, within f.write(), or after the with block has closed the file
InterruptPoints == {"before open", "after open", "in write", "after close"}

\* what the file holds after a kill at that point; an empty file reads as
\* base64 of a text that is no JSON
InterruptedFile(point, encrypted_data, partial) ==
    IF point = "before open" THEN session_file
    ELSE IF point = "after open" THEN Some(b64encode(NotJson))
    ELSE IF point = "in write" THEN partial
    ELSE Some(encrypted_data)

\* save_session cut short by the kill; the next process starts with an empty
\* session_data.  sessOp keeps the file as it was and the record being saved
SaveSessionInterrupted ==
    \E user \in Users, remember_me \in BOOLEAN, point \in InterruptPoints,
       partial \in PartialFiles :
        LET session_info == SessionInfo(user, remember_me, clock, clock)
            encrypted_data == b64encode(json_dumps(session_info))
        IN  /\ point # "in write" => partial = Some(NotBase64)
            /\ session_file' = InterruptedFile(point, encrypted_data, partial)
            /\ session_data' = None
            /\ sessOp' = [NoOp EXCEPT !.op = "save_interrupted", !.prev = sessOp.op,
                                      !.prevExisted = sessOp.existed,
                                      !.ret = Some(session_info),
                                      !.found = session_file,
                                      !.existed = (session_file # None), !.at = clock]
            /\ UNCHANGED <<clock, apiVars, authVars>>

\* what .session_data may hold when the process starts: nothing, text that
\* does not decode, a record with its expires key missing, unreadable, past or
\* ahead, and a record with its user key missing
StartFiles ==
    { None, Some(NotBase64), Some(b64encode(NotJson)) }
    \cup { Some(b64encode(json_dumps(
               [SessionInfo(u, r, 0, 0) EXCEPT !.expires = e])))
           : u \in Users, r \in BOOLEAN,
             e \in {None, Some(NotADate), Some(EpochIso), Some(isoformat(TTL))} }
    \cup { Some(b64encode(json_dumps(
               [SessionInfo(u, r, 0, 0) EXCEPT !.user = None,
                                               !.expires = Some(isoformat(TTL))])))
           : u \in Users, r \in BOOLEAN }

SessInit ==
    /\ clock = 0
    /\ session_file \in StartFiles
    /\ session_data = None
    /\ sessOp = NoOp

(***************************************************************************)
(* Login client (NetworkChecker, AuthManager, FullscreenLoginWindow)       *)
(***************************************************************************)
TheEmail == <<"a", "@", "b.com">>

EmailInputs == { <<" ">>, <<"ab.com">>, <<" ">> \o TheEmail \o <<" ">> }
PasswordInputs == { "", "x" }

\* accounts of the remote identity service (auth.users)
RemoteAccounts == { <<TheEmail, "x">> }
RemoteUser(email) == [id |-> <<"u1">>, email |-> email, table_auth |-> FALSE]
RemoteToken(email) == <<"jwt_">> \o email

\* what the Users table may hold
Row(id, email, password) == [id |-> id, email |-> email, password |-> password]
UsersTables ==
    { <<>>,
      <<Row(7, TheEmail, "x")>>,
      <<Row(7, TheEmail, "y"), Row(8, TheEmail, "x")>>,
      <<Row(7, TheEmail, "x"), Row(8, TheEmail, "y")>>,
      <<Row(7, TheEmail, "")>> }

\* the three probes of check_internet_connection, each 200, another status, or raising
ProbeRuns ==
    { <<"200", "200", "200">>, <<"503", "exc", "200">>, <<"exc", "503", "exc">> }

\* mutation of check_internet_connection: the network is taken to be there
check_internet_connection_assumed(probes) == TRUE

check_internet_connection(probes) == \E i \in 1..3 : probes[i] = "200"

\* ---- NetworkChecker as check_network_status calls it
Endpoints == <<"https://www.google.com", "https://httpbin.org/get", "https://www.cloudflare.com">>

\* what the GET of one endpoint may give: a status, or an exception
ProbeStatuses == {"200", "404", "503", "exc"}
AllProbeRuns == [1..Len(Endpoints) -> ProbeStatuses]

\* the loop of check_internet_connection from endpoint i on: whether it
\* returns True, and the endpoints it has sent a GET to when it returns
RECURSIVE check_internet_connection_loop(_, _)
check_internet_connection_loop(probes, i) ==
    IF i > Len(Endpoints) THEN [ok |-> FALSE, sent |-> SubSeq(Endpoints, 1, i - 1)]
    ELSE IF probes[i] = "200" THEN [ok |-> TRUE, sent |-> SubSeq(Endpoints, 1, i)]
    ELSE check_internet_connection_loop(probes, i + 1)

\* AuthManager.base_url, and the host name check_supabase_connection resolves:
\* url.replace('https://', '').replace('http://', '').split('/')[0]
ClientBaseUrl == <<"https://", "proj.supabase.co">>

RECURSIVE UpToSlash(_)
UpToSlash(s) ==
    IF s = <<>> \/ s[1] = "/" THEN <<>> ELSE <<s[1]>> \o UpToSlash(Tail(s))

Hostname(url) == UpToSlash(RemoveAll(RemoveAll(url, "https://"), "http://"))

\* what socket.gethostbyname and GET {url}/rest/v1/ may give
DnsOutcomes == {"resolved", "gaierror"}
BackendStatuses == {"200", "401", "503", "exc"}

\* mutation of check_supabase_connection: the GET is sent before the name is
\* looked at
check_supabase_connection_get_first(url, dns, status) ==
    [ok |-> status = "200" /\ dns = "resolved",
     resolved |-> Hostname(url),
     requests |-> <<"get", "resolve">>]

\* check_supabase_connection: whether it returns True, the name it resolved
\* and what it did on the network
check_supabase_connection(url, dns, status) ==
    IF dns = "gaierror" THEN
        [ok |-> FALSE, resolved |-> Hostname(url), requests |-> <<"resolve">>]
    ELSE
        [ok |-> status = "200", resolved |-> Hostname(url), requests |-> <<"resolve", "get">>]

NoCheck == [text |-> <<>>, probes |-> <<>>, sent |-> <<>>, internet_ok |-> FALSE,
            dns |-> "", status |-> "", resolved |-> <<>>, requests |-> <<>>,
            supabase_ok |-> FALSE]

\* check_network_status: the check in its thread, and the text its after(0, ...)
\* callback gives the connection label
CheckNetworkStatus ==
    /\ window = "open"
    /\ \E probes \in AllProbeRuns, dns \in DnsOutcomes, status \in BackendStatuses :
        LET internet == check_internet_connection_loop(probes, 1)
            internet_ok == internet.ok
            backend == check_supabase_connection(ClientBaseUrl, dns, status)
            supabase_ok == IF internet_ok THEN backend.ok ELSE FALSE
        IN  \* an answer is drawn only for a call that is made
            /\ ~internet_ok => dns = "gaierror"
            /\ dns = "gaierror" => status = "exc"
            /\ connection_info' =
                   [text |-> IF internet_ok /\ supabase_ok
                               THEN <<"Connected - Ready to authenticate">>
                             ELSE IF internet_ok THEN <<"Internet OK - Auth server issues">>
                             ELSE <<"No internet connection">>,
                    probes |-> probes,
                    sent |-> internet.sent,
                    internet_ok |-> internet_ok,
                    dns |-> IF internet_ok THEN dns ELSE "",
                    status |-> IF internet_ok /\ dns = "resolved" THEN status ELSE "",
                    resolved |-> IF internet_ok THEN backend.resolved ELSE <<>>,
                    requests |-> IF internet_ok THEN backend.requests ELSE <<>>,
                    supabase_ok |-> supabase_ok]
    /\ UNCHANGED <<usersTable, previous_run, current_user, access_token, workers, assigning,
                   afterQueue, attempts, submitted, login_button, status_label,
                   remember_var, lastResult, pendingSuccess, window, authenticated,
                   user_data, apiVars, sessVars>>

\* what POST /auth/v1/token may answer
AuthStatuses(email, password) ==
    {"400", "exc"} \cup (IF <<email, password>> \in RemoteAccounts THEN {"200"} ELSE {})

\* what GET /rest/v1/Users?email=eq.<email> may answer
TableStatuses == {"200", "500", "exc"}
TableRows(email) == SelectSeq(usersTable, LAMBDA r : r.email = email)

\* str.strip()
RECURSIVE LStrip(_)
LStrip(s) == IF Len(s) > 0 /\ s[1] = " " THEN LStrip(Tail(s)) ELSE s
RECURSIVE RStrip(_)
RStrip(s) == IF Len(s) > 0 /\ s[Len(s)] = " " THEN RStrip(SubSeq(s, 1, Len(s) - 1)) ELSE s
Strip(s) == RStrip(LStrip(s))

\* str(x) and the f-string formatting of a row id
Str(id) == <<ToString(id)>>

NoLog == [reachable |-> FALSE, probe |-> FALSE, remote |-> "", table |-> "", rows |-> <<>>,
          requests |-> <<>>]

Failure(error) ==
    [success |-> FALSE, error |-> error, user |-> None, method |-> "", token |-> None]

Success(user, method, token) ==
    [success |-> TRUE, error |-> <<>>, user |-> Some(user), method |-> method,
     token |-> Some(token)]

\* mutation of _verify_password: the comparison is inverted
_verify_password_inverted(provided_password, stored_password) ==
    IF stored_password = "" THEN FALSE ELSE provided_password # stored_password

_verify_password(provided_password, stored_password) ==
    IF stored_password = "" THEN FALSE ELSE provided_password = stored_password

TableToken(user) == <<"table_auth_">> \o Str(user.id)

\* _try_supabase_auth: the dictionary it returns
_try_supabase_auth(email, password, rout) ==
    IF rout = "exc" THEN Failure(<<"str(e)">>)
    ELSE IF rout = "200" THEN Success(RemoteUser(email), "supabase_auth", RemoteToken(email))
    ELSE Failure(<<"Auth failed">>)

\* _try_user_table_auth: the dictionary it returns
_try_user_table_auth(email, password, tout, users) ==
    IF tout = "exc" THEN Failure(<<"str(e)">>)
    ELSE IF tout = "200" THEN
        IF users = <<>> THEN Failure(<<"User not found">>)
        ELSE IF _verify_password(password, users[1].password) THEN
            Success([id |-> Str(users[1].id), email |-> users[1].email, table_auth |-> TRUE],
                    "user_table", TableToken(users[1]))
        ELSE Failure(<<"Invalid password">>)
    ELSE Failure(<<"Database query failed: ", tout>>)

\* mutation of BothFailed: the message of the stage that failed last is passed on
BothFailed_passing_on(auth_result, table_result) == Failure(table_result.error)

\* what sign_in returns once both strategies have answered without success
BothFailed(auth_result, table_result) == Failure(<<"Invalid email or password">>)

\* mutation of FallsThrough: the Users table is asked whatever method 1 returned
FallsThrough_always(auth_result) == TRUE

\* whether sign_in goes on to the Users table after _try_supabase_auth
FallsThrough(auth_result) == ~auth_result.success

Worker(id, email, password) == [id |-> id, email |-> email, password |-> password]

\* AuthManager.sign_in: the dictionary it returns, given what the probes, the
\* identity service and the Users table answer
sign_in(email, password, probes, rout, tout) ==
    IF ~check_internet_connection(probes) THEN
        Failure(<<"No internet connection available">>)
    ELSE
        LET auth_result == _try_supabase_auth(email, password, rout) IN
        IF ~FallsThrough(auth_result) THEN auth_result
        ELSE
            LET table_result ==
                    _try_user_table_auth(email, password, tout,
                                         IF tout = "200" THEN TableRows(email) ELSE <<>>)
            IN  IF table_result.success THEN table_result
                ELSE BothFailed(auth_result, table_result)

\* the requests that call of sign_in sends, and what they were answered;
\* reachable tells whether any of the three probes was answered 200
SignInLog(email, password, probes, rout, tout) ==
    LET online == check_internet_connection(probes)
        auth_result == _try_supabase_auth(email, password, rout)
        asked == online /\ FallsThrough(auth_result)
    IN  [reachable |-> \E i \in 1..3 : probes[i] = "200",
         probe |-> online,
         remote |-> IF online THEN rout ELSE "",
         table |-> IF asked THEN tout ELSE "",
         rows |-> IF asked /\ tout = "200" THEN TableRows(email) ELSE <<>>,
         requests |-> <<"probe">> \o (IF online THEN <<"auth">> ELSE <<>>)
                          \o (IF asked THEN <<"table">> ELSE <<>>)]

\* mutation of SignInIdentity: _try_user_table_auth assigns the fields as soon
\* as it has found the row, before it compares the password
SignInIdentity_before_password(email, password, probes, rout, tout) ==
    LET log == SignInLog(email, password, probes, rout, tout)
        auth_result == _try_supabase_auth(email, password, rout)
    IN  IF log.table # "" /\ log.rows # <<>> THEN
            [token |-> Some(TableToken(log.rows[1])),
             user |-> Some([id |-> Str(log.rows[1].id), email |-> log.rows[1].email,
                            table_auth |-> TRUE])]
        ELSE IF log.remote # "" /\ auth_result.success THEN auth_result
        ELSE [token |-> access_token, user |-> current_user]

\* the fields of AuthManager after that call: each strategy that succeeds
\* assigns access_token and current_user
SignInIdentity(email, password, probes, rout, tout) ==
    LET log == SignInLog(email, password, probes, rout, tout)
        auth_result == _try_supabase_auth(email, password, rout)
        table_result == _try_user_table_auth(email, password, tout, log.rows)
    IN  IF log.table # "" /\ table_result.success THEN table_result
        ELSE IF log.remote # "" /\ auth_result.success THEN auth_result
        ELSE [token |-> access_token, user |-> current_user]

\* what one call of handle_login was given and did: whether the email it read
\* lacks an "@", whether it sent the reachability probes, whether it started a
\* thread
Submission(email, probed, started) ==
    Some([noAt |-> ~\E i \in DOMAIN email : email[i] = "@",
          probed |-> probed,
          started |-> started])

\* handle_login: the checks on the main loop, then the worker thread
handle_login(emailInput, password, probes) ==
    LET email == Strip(emailInput) IN
    IF email = <<>> \/ password = "" THEN
        /\ status_label' = <<"Please enter both email and password">>
        /\ submitted' = Submission(email, FALSE, FALSE)
        /\ UNCHANGED <<workers, attempts, login_button>>
    ELSE IF ~Contains(email, "@") THEN
        /\ status_label' = <<"Please enter a valid email address">>
        /\ submitted' = Submission(email, FALSE, FALSE)
        /\ UNCHANGED <<workers, attempts, login_button>>
    ELSE IF ~check_internet_connection(probes) THEN
        /\ status_label' = <<"No internet connection. Check your network.">>
        /\ submitted' = Submission(email, TRUE, FALSE)
        /\ UNCHANGED <<workers, attempts, login_button>>
    ELSE
        /\ attempts < MaxAttempts
        /\ attempts' = attempts + 1
        /\ login_button' = "disabled"
        /\ status_label' = <<"Authenticating...">>
        /\ submitted' = Submission(email, TRUE, TRUE)
        /\ workers' = workers \cup {Worker(attempts + 1, email, password)}

uiFrame == <<usersTable, previous_run, connection_info, assigning, current_user,
             access_token, afterQueue, remember_var, lastResult, pendingSuccess, window,
             authenticated, user_data>>

\* the Sign In button (command=self.handle_login): dead while disabled
ClickSignIn ==
    /\ window = "open"
    /\ login_button = "normal"
    /\ \E emailInput \in EmailInputs, password \in PasswordInputs, probes \in ProbeRuns :
           \* the probes are drawn only when handle_login comes to send them
           /\ ~Contains(Strip(emailInput), "@") \/ password = "" => probes = <<"200", "200", "200">>
           /\ handle_login(emailInput, password, probes)
    /\ UNCHANGED <<uiFrame, apiVars, sessVars>>

\* the <Return> bindings of the window and of both entries
PressReturn ==
    /\ window = "open"
    /\ \E emailInput \in EmailInputs, password \in PasswordInputs, probes \in ProbeRuns :
           \* the probes are drawn only when handle_login comes to send them
           /\ ~Contains(Strip(emailInput), "@") \/ password = "" => probes = <<"200", "200", "200">>
           /\ handle_login(emailInput, password, probes)
    /\ UNCHANGED <<uiFrame, apiVars, sessVars>>

ToggleRemember ==
    /\ window = "open"
    /\ remember_var' = ~remember_var
    /\ UNCHANGED <<usersTable, previous_run, connection_info, current_user, access_token,
                   workers, assigning, afterQueue, attempts, submitted, login_button,
                   status_label, lastResult, pendingSuccess, window, authenticated,
                   user_data, apiVars, sessVars>>

\* _perform_login in its thread: sign_in, then
\* self.after(0, self._handle_login_result, result); on a destroyed window
\* after() raises in the daemon thread and the result is lost
PerformLogin(w) ==
    /\ \E probes \in ProbeRuns, rout \in AuthStatuses(w.email, w.password),
          tout \in TableStatuses :
        LET result == sign_in(w.email, w.password, probes, rout, tout)
            log == SignInLog(w.email, w.password, probes, rout, tout)
            identity == SignInIdentity(w.email, w.password, probes, rout, tout)
        IN  \* an answer is drawn only for a request that is sent
            /\ log.remote = "" => rout = "exc"
            /\ log.table = "" => tout = "exc"
            /\ access_token' = identity.token
            /\ current_user' = identity.user
            /\ afterQueue' = IF window = "open"
                             THEN Append(afterQueue, [id |-> w.id, email |-> w.email,
                                                      password |-> w.password,
                                                      result |-> result, log |-> log,
                                                      before |-> [token |-> access_token,
                                                                  user |-> current_user],
                                                      after |-> [token |-> identity.token,
                                                                 user |-> identity.user]])
                             ELSE afterQueue
    /\ workers' = workers \ {w}
    /\ UNCHANGED <<usersTable, previous_run, connection_info, assigning, attempts,
                   submitted, login_button, status_label, remember_var, lastResult,
                   pendingSuccess, window, authenticated, user_data, apiVars, sessVars>>

\* the two assignments of the strategy that succeeded, in the order of its
\* statements: _try_supabase_auth assigns access_token, then current_user;
\* _try_user_table_auth assigns current_user, then access_token
Assignments(result) ==
    IF result.method = "supabase_auth"
    THEN <<[field |-> "access_token", value |-> result.token],
           [field |-> "current_user", value |-> result.user]>>
    ELSE <<[field |-> "current_user", value |-> result.user],
           [field |-> "access_token", value |-> result.token]>>

\* one assignment to a field of the AuthManager all threads share
Assign(a) ==
    /\ access_token' = IF a.field = "access_token" THEN a.value ELSE access_token
    /\ current_user' = IF a.field = "current_user" THEN a.value ELSE current_user

\* _perform_login in its thread, statement by statement: sign_in up to the
\* first assignment of the strategy that succeeds; a sign_in that fails assigns
\* nothing and hands its result over at once
SignInBegin(w) ==
    /\ \E probes \in ProbeRuns, rout \in AuthStatuses(w.email, w.password),
          tout \in TableStatuses :
        LET result == sign_in(w.email, w.password, probes, rout, tout)
            log == SignInLog(w.email, w.password, probes, rout, tout)
            begun == [id |-> w.id, email |-> w.email, password |-> w.password,
                      result |-> result, log |-> log,
                      before |-> [token |-> access_token, user |-> current_user]]
        IN  \* an answer is drawn only for a request that is sent
            /\ log.remote = "" => rout = "exc"
            /\ log.table = "" => tout = "exc"
            /\ IF result.success THEN
                   /\ Assign(Assignments(result)[1])
                   /\ assigning' = assigning \cup {begun}
                   /\ UNCHANGED afterQueue
               ELSE
                   /\ afterQueue' = IF window = "open"
                                    THEN Append(afterQueue,
                                                begun @@ [after |-> begun.before])
                                    ELSE afterQueue
                   /\ UNCHANGED <<access_token, current_user, assigning>>
    /\ workers' = workers \ {w}
    /\ UNCHANGED <<usersTable, previous_run, connection_info, attempts, submitted,
                   login_button, status_label, remember_var, lastResult, pendingSuccess,
                   window, authenticated, user_data, apiVars, sessVars>>

\* the rest of that thread: the second assignment, the return of sign_in and
\* self.after(0, self._handle_login_result, result)
SignInFinish(a) ==
    /\ Assign(Assignments(a.result)[2])
    /\ assigning' = assigning \ {a}
    /\ afterQueue' = IF window = "open"
                     THEN Append(afterQueue,
                                 a @@ [after |-> [token |-> access_token',
                                                  user |-> current_user']])
                     ELSE afterQueue
    /\ UNCHANGED <<usersTable, previous_run, connection_info, workers, attempts, submitted,
                   login_button, status_label, remember_var, lastResult, pendingSuccess,
                   window, authenticated, user_data, apiVars, sessVars>>

\* _handle_login_result, run by the main loop; its message replaces the one
\* handle_login had put in the status label.  lastResult keeps, with the result,
\* the flag handed to save_session (FALSE when save_session is not called), the
\* session file before and after, and the message shown
HandleLoginResult ==
    /\ window = "open"
    /\ afterQueue # <<>>
    /\ LET handed == Head(afterQueue)
           result == handed.result
       IN  /\ afterQueue' = Tail(afterQueue)
           /\ login_button' = "normal"
           /\ IF result.success THEN
                  /\ save_session(result.user[1], remember_var, 0)
                  /\ sessOp' = [NoOp EXCEPT !.op = "save", !.prev = sessOp.op,
                                            !.prevExisted = sessOp.existed,
                                            !.existed = (session_file # None),
                                            !.at = clock]
                  /\ status_label' = <<"Login successful!">>
                  /\ pendingSuccess' = Append(pendingSuccess, result.user[1])
              ELSE
                  /\ status_label' = result.error
                  /\ UNCHANGED <<sessVars, pendingSuccess>>
           /\ lastResult' = Some(handed @@ [remember |-> result.success /\ remember_var,
                                             fileBefore |-> session_file,
                                             shown |-> status_label',
                                             file |-> session_file'])
    /\ submitted' = None
    /\ UNCHANGED <<usersTable, previous_run, connection_info, current_user, access_token,
                   workers, assigning, attempts, remember_var, window, authenticated,
                   user_data, apiVars>>

\* LoginSystem._on_login_success, the callback authenticate_user registers
_on_login_success(user) ==
    /\ user_data' = Some(user)
    /\ authenticated' = TRUE

\* FullscreenLoginWindow.on_login_success: the callback when one is registered,
\* then self.destroy()
on_login_success(login_success_callback, user) ==
    /\ IF login_success_callback THEN _on_login_success(user)
       ELSE UNCHANGED <<user_data, authenticated>>
    /\ window' = "destroyed"

\* on_login_success after the 500 ms delay, with LoginSystem._on_login_success as
\* the callback; destroying the window drops what the main loop still had queued
OnLoginSuccess ==
    /\ window = "open"
    /\ pendingSuccess # <<>>
    /\ on_login_success(TRUE, Head(pendingSuccess))
    /\ pendingSuccess' = <<>>
    /\ afterQueue' = <<>>
    /\ UNCHANGED <<usersTable, previous_run, connection_info, current_user, access_token,
                   workers, assigning, attempts, submitted, login_button, status_label,
                   remember_var, lastResult, apiVars, sessVars>>

\* check_existing_session, called by FullscreenLoginWindow.__init__ while
\* login_success_callback is still the None that __init__ assigned
check_existing_session(ret) ==
    LET valid == /\ ret # None
                 /\ ExpiresText(ret[1]).iso
                 /\ ValidAt(clock, ExpiresText(ret[1]).t)
        resumes == valid /\ ret[1].remember_me
    IN  /\ load_session(ret)
        /\ sessOp' = [NoOp EXCEPT !.op = "check_existing", !.prev = sessOp.op,
                                  !.prevExisted = sessOp.existed, !.ret = ret,
                                  !.valid = valid, !.found = session_file,
                                  !.existed = (session_file # None), !.at = clock]
        /\ IF resumes /\ ret[1].user = None THEN
               \* session_data["user"] raises KeyError out of __init__: the
               \* window is never shown and authenticate_user returns False
               /\ window' = "failed"
               /\ UNCHANGED <<current_user, user_data, authenticated>>
           ELSE IF resumes THEN
               /\ current_user' = ret[1].user
               /\ on_login_success(FALSE, ret[1].user[1])
           ELSE
               /\ window' = "open"
               /\ UNCHANGED <<current_user, user_data, authenticated>>

\* authenticate_user up to the main loop: the window is built, and with it
\* check_existing_session runs, before set_login_success_callback is called.
\* When the window destroyed itself in __init__, the bind() that follows raises
\* or mainloop() returns at once; either way authenticate_user returns
\* self.authenticated as the constructor left it
AuthenticateUser ==
    /\ window = "unbuilt"
    /\ \E ret \in {None} \cup {Some(session_file[i].data.obj) : i \in 1..Len(session_file)} :
           check_existing_session(ret)
    /\ UNCHANGED <<clock, usersTable, previous_run, connection_info, access_token, workers,
                   assigning, afterQueue, attempts, submitted, login_button, status_label,
                   remember_var, lastResult, pendingSuccess, apiVars>>

\* the I/O errors a call of load_session meets: the read fails on a file that
\* is there, os.remove fails when load_session comes to clear it
LoadFaultsMet(readFault, removeFault) ==
    IF session_file = None THEN {}
    ELSE LET encrypted_data == session_file[1]
             decodes == encrypted_data.b64 /\ encrypted_data.data.json
             obj == encrypted_data.data.obj
             clears == \/ readFault = "read"
                       \/ ~decodes
                       \/ ~ExpiresText(obj).iso
                       \/ LoadExpired(clock, ExpiresText(obj).t)
         IN  (IF readFault = "read" THEN {"read"} ELSE {})
                 \cup (IF clears /\ removeFault = "remove" THEN {"remove"} ELSE {})

\* LoginSystem._initialize_components: SessionManager() calls load_session()
\* and drops what it returns
initialize_components(ret, readFault, removeFault) ==
    /\ window = "uninitialized"
    /\ load_session_io(ret, readFault, removeFault)
    /\ sessOp' = [NoOp EXCEPT !.op = "load", !.prev = sessOp.op,
                              !.prevExisted = sessOp.existed, !.ret = ret,
                              !.found = session_file,
                              !.existed = (session_file # None), !.at = clock,
                              !.fault = LoadFaultsMet(readFault, removeFault)]
    /\ window' = "unbuilt"
    /\ UNCHANGED <<clock, usersTable, previous_run, connection_info, current_user,
                   access_token, workers, assigning, afterQueue, attempts, submitted,
                   login_button, status_label, remember_var, lastResult, pendingSuccess,
                   authenticated, user_data, apiVars>>

InitializeComponents ==
    \E ret \in {None} \cup {Some(session_file[i].data.obj) : i \in 1..Len(session_file)} :
        initialize_components(ret, "none", "none")

\* the same on a disk that fails
InitializeComponentsIo ==
    \E ret \in {None} \cup {Some(session_file[i].data.obj) : i \in 1..Len(session_file)},
       readFault \in ReadFaults, removeFault \in RemoveFaults :
        /\ LoadFaultsMet(readFault, removeFault) # {}
        /\ readFault = "none" \/ "read" \in LoadFaultsMet(readFault, removeFault)
        /\ removeFault = "none" \/ "remove" \in LoadFaultsMet(readFault, removeFault)
        /\ initialize_components(ret, readFault, removeFault)

\* check_existing_session when the disk fails under its load_session
check_existing_session_io(ret, readFault, removeFault) ==
    LET valid == /\ ret # None
                 /\ ExpiresText(ret[1]).iso
                 /\ ValidAt(clock, ExpiresText(ret[1]).t)
        resumes == valid /\ ret[1].remember_me
    IN  /\ load_session_io(ret, readFault, removeFault)
        /\ sessOp' = [NoOp EXCEPT !.op = "check_existing", !.prev = sessOp.op,
                                  !.prevExisted = sessOp.existed, !.ret = ret,
                                  !.valid = valid, !.found = session_file,
                                  !.existed = (session_file # None), !.at = clock,
                                  !.fault = LoadFaultsMet(readFault, removeFault)]
        /\ IF resumes /\ ret[1].user = None THEN
               /\ window' = "failed"
               /\ UNCHANGED <<current_user, user_data, authenticated>>
           ELSE IF resumes THEN
               /\ current_user' = ret[1].user
               /\ on_login_success(FALSE, ret[1].user[1])
           ELSE
               /\ window' = "open"
               /\ UNCHANGED <<current_user, user_data, authenticated>>

AuthenticateUserIo ==
    /\ window = "unbuilt"
    /\ \E ret \in {None} \cup {Some(session_file[i].data.obj) : i \in 1..Len(session_file)},
          readFault \in ReadFaults, removeFault \in RemoveFaults :
           /\ LoadFaultsMet(readFault, removeFault) # {}
           /\ readFault = "none" \/ "read" \in LoadFaultsMet(readFault, removeFault)
           /\ removeFault = "none" \/ "remove" \in LoadFaultsMet(readFault, removeFault)
           /\ check_existing_session_io(ret, readFault, removeFault)
    /\ UNCHANGED <<clock, usersTable, previous_run, connection_info, access_token, workers,
                   assigning, afterQueue, attempts, submitted, login_button, status_label,
                   remember_var, lastResult, pendingSuccess, apiVars>>

\* _handle_login_result on a successful result when save_session cannot write
HandleLoginResultIo ==
    /\ window = "open"
    /\ afterQueue # <<>>
    /\ Head(afterQueue).result.success
    /\ LET handed == Head(afterQueue)
           result == handed.result
       IN  /\ afterQueue' = Tail(afterQueue)
           /\ login_button' = "normal"
           /\ \E fault \in WriteFaults \ {"none"}, partial \in PartialFiles :
                  /\ fault = "open" => partial = Some(NotBase64)
                  /\ save_session_io(result.user[1], remember_var, 0, fault, partial)
                  /\ sessOp' = [NoOp EXCEPT !.op = "save", !.prev = sessOp.op,
                                            !.prevExisted = sessOp.existed,
                                            !.existed = (session_file # None),
                                            !.found = session_file,
                                            !.at = clock, !.fault = {fault}]
           /\ status_label' = <<"Login successful!">>
           /\ pendingSuccess' = Append(pendingSuccess, result.user[1])
           /\ lastResult' = Some(handed @@ [remember |-> remember_var,
                                             fileBefore |-> session_file,
                                             shown |-> status_label',
                                             file |-> session_file'])
    /\ submitted' = None
    /\ UNCHANGED <<usersTable, previous_run, connection_info, current_user, access_token,
                   workers, assigning, attempts, remember_var, window, authenticated,
                   user_data, apiVars>>

\* mutation of sign_out: the token outlives the identity
sign_out_keeping_token ==
    /\ current_user' = None
    /\ UNCHANGED access_token

\* AuthManager.sign_out
sign_out ==
    /\ current_user' = None
    /\ access_token' = None

\* LoginSystem.logout, which the application calls while the login window's
\* main loop is not running
Logout ==
    /\ window \in {"unbuilt", "destroyed", "failed"}
    /\ sign_out
    /\ clear_session
    /\ user_data' = None
    /\ authenticated' = FALSE
    /\ sessOp' = [NoOp EXCEPT !.op = "logout", !.prev = sessOp.op,
                              !.prevExisted = sessOp.existed,
                              !.existed = (session_file # None), !.at = clock]
    /\ UNCHANGED <<clock, usersTable, previous_run, connection_info, workers, assigning,
                   afterQueue, attempts, submitted, login_button, status_label,
                   remember_var, lastResult, pendingSuccess, window, apiVars>>

\* LoginSystem.logout when os.remove fails in clear_session
LogoutIo ==
    /\ window \in {"unbuilt", "destroyed", "failed"}
    /\ session_file # None
    /\ sign_out
    /\ clear_session_io("remove")
    /\ user_data' = None
    /\ authenticated' = FALSE
    /\ sessOp' = [NoOp EXCEPT !.op = "logout", !.prev = sessOp.op,
                              !.prevExisted = sessOp.existed,
                              !.found = session_file,
                              !.existed = (session_file # None), !.at = clock,
                              !.fault = {"remove"}]
    /\ UNCHANGED <<clock, usersTable, previous_run, connection_info, workers, assigning,
                   afterQueue, attempts, submitted, login_button, status_label,
                   remember_var, lastResult, pendingSuccess, window, apiVars>>

\* LoginSystem.is_authenticated
is_authenticated == authenticated /\ user_data # None

\* SecureWipeMainApp.handle_logout once the user has confirmed: logout(),
\* destroy(), then SecureWipeMainApp() again, whose LoginSystem() starts from
\* the values of its constructor with a new AuthManager and, later, a new
\* window; the threads the old window left behind reach no object of the new
\* application.  The main interface, and with it the logout button, exists only
\* after authenticate_user has returned True
HandleLogout ==
    /\ window = "destroyed"
    /\ authenticated
    /\ sign_out
    /\ clear_session
    /\ user_data' = None
    /\ authenticated' = FALSE
    /\ sessOp' = [NoOp EXCEPT !.op = "logout", !.prev = sessOp.op,
                              !.prevExisted = sessOp.existed,
                              !.existed = (session_file # None), !.at = clock]
    /\ previous_run' = Some([file |-> session_file, user |-> user_data])
    /\ window' = "uninitialized"
    /\ workers' = {}
    /\ assigning' = {}
    /\ afterQueue' = <<>>
    /\ pendingSuccess' = <<>>
    /\ submitted' = None
    /\ login_button' = "normal"
    /\ status_label' = <<>>
    /\ remember_var' = FALSE
    /\ lastResult' = None
    /\ UNCHANGED <<clock, usersTable, connection_info, attempts, apiVars>>

ClientInit ==
    /\ usersTable \in UsersTables
    /\ connection_info = NoCheck
    /\ assigning = {}
    /\ previous_run = None
    /\ current_user = None
    /\ access_token = None
    /\ workers = {}
    /\ afterQueue = <<>>
    /\ attempts = 0
    /\ submitted = None
    /\ login_button = "normal"
    /\ status_label = <<>>
    /\ remember_var = FALSE
    /\ lastResult = None
    /\ pendingSuccess = <<>>
    /\ window = "open"
    /\ authenticated = FALSE
    /\ user_data = None

(***************************************************************************)
(* Specifications                                                          *)
(***************************************************************************)
ClientIdle ==
    /\ usersTable = <<>>
    /\ connection_info = NoCheck
    /\ assigning = {}
    /\ previous_run = None
    /\ current_user = None
    /\ access_token = None
    /\ workers = {}
    /\ afterQueue = <<>>
    /\ attempts = 0
    /\ submitted = None
    /\ login_button = "normal"
    /\ status_label = <<>>
    /\ remember_var = FALSE
    /\ lastResult = None
    /\ pendingSuccess = <<>>
    /\ window = "open"
    /\ authenticated = FALSE
    /\ user_data = None

SessIdle ==
    /\ clock = 0
    /\ session_file = None
    /\ session_data = None
    /\ sessOp = NoOp

\* the certificate API serving requests
ApiSpecInit == ApiInit /\ SessIdle /\ ClientIdle
ApiNext == GenerateCertificate \/ GetMyCertificates \/ GetCertificatesByDevice
SpecApi == ApiSpecInit /\ [][ApiNext]_vars

\* the session store, called in any order as time passes
SessSpecInit == ApiInit /\ SessInit /\ ClientIdle
SessNext == SaveSession \/ LoadSession \/ ClearSession \/ IsValidSession \/ Tick
SpecSession == SessSpecInit /\ [][SessNext]_vars

\* the session store when the process can be killed within save_session and
\* started again, at one reading of the clock
CrashNext == SaveSessionInterrupted \/ LoadSession \/ ClearSession \/ IsValidSession
SpecCrash == SessSpecInit /\ [][CrashNext]_vars

\* the connection check of the login window, run any number of times
NetworkNext == CheckNetworkStatus
SpecNetwork == ApiSpecInit /\ [][NetworkNext]_vars

\* the login window from its first display to the hand-over of the identity
ClientSpecInit == ApiInit /\ SessIdle /\ ClientInit
ClientNext ==
    \/ ClickSignIn
    \/ PressReturn
    \/ ToggleRemember
    \/ \E w \in workers : PerformLogin(w)
    \/ HandleLoginResult
    \/ OnLoginSuccess
SpecClient == ClientSpecInit /\ [][ClientNext]_vars

\* the login window with the statements of its sign-in threads interleaved
ThreadsNext ==
    \/ ClickSignIn
    \/ PressReturn
    \/ ToggleRemember
    \/ \E w \in workers : SignInBegin(w)
    \/ \E a \in assigning : SignInFinish(a)
    \/ HandleLoginResult
    \/ OnLoginSuccess
SpecThreads == ClientSpecInit /\ [][ThreadsNext]_vars

\* the login window with its threads and its main loop running: a sign-in
\* thread returns (every request of sign_in carries a timeout), and the main
\* loop runs the callbacks handed to after()
ClientFairness ==
    /\ WF_vars(\E w \in workers : PerformLogin(w))
    /\ WF_vars(HandleLoginResult)
    /\ WF_vars(OnLoginSuccess)
SpecClientLive == SpecClient /\ ClientFairness

\* the client process from its start: what authenticate_user finds in
\* .session_data, then the login window
StartClocks == {0, TTL}

StartInit ==
    /\ ApiInit
    /\ clock \in StartClocks
    /\ session_file \in StartFiles
    /\ session_data = None
    /\ sessOp = NoOp
    /\ usersTable = <<>>
    /\ connection_info = NoCheck
    /\ assigning = {}
    /\ previous_run = None
    /\ current_user = None
    /\ access_token = None
    /\ workers = {}
    /\ afterQueue = <<>>
    /\ attempts = 0
    /\ submitted = None
    /\ login_button = "normal"
    /\ status_label = <<>>
    /\ remember_var = FALSE
    /\ lastResult = None
    /\ pendingSuccess = <<>>
    /\ window = "unbuilt"
    /\ authenticated = FALSE
    /\ user_data = None

StartNext == AuthenticateUser \/ ClientNext
SpecStart == StartInit /\ [][StartNext]_vars

\* the client process and the application that logs out: a start with or
\* without a remembered session, the login window, and logout once the window
\* is gone
SignOutInit ==
    /\ ApiInit
    /\ clock = 0
    /\ session_file \in {None} \cup {Some(b64encode(json_dumps(SessionInfo(u, TRUE, 0, 0))))
                                     : u \in Users}
    /\ session_data = None
    /\ sessOp = NoOp
    /\ usersTable = <<>>
    /\ connection_info = NoCheck
    /\ assigning = {}
    /\ previous_run = None
    /\ current_user = None
    /\ access_token = None
    /\ workers = {}
    /\ afterQueue = <<>>
    /\ attempts = 0
    /\ submitted = None
    /\ login_button = "normal"
    /\ status_label = <<>>
    /\ remember_var = FALSE
    /\ lastResult = None
    /\ pendingSuccess = <<>>
    /\ window = "unbuilt"
    /\ authenticated = FALSE
    /\ user_data = None

SignOutNext == AuthenticateUser \/ ClientNext \/ Logout
SpecSignOut == SignOutInit /\ [][SignOutNext]_vars

\* the client process from the construction of LoginSystem on, on a disk that
\* can fail under every access to .session_data
IoFiles ==
    { None, Some(NotBase64) }
    \cup { Some(b64encode(json_dumps([SessionInfo(RemoteUser(TheEmail), r, 0, 0)
                                          EXCEPT !.expires = e])))
           : r \in BOOLEAN, e \in {Some(EpochIso), Some(isoformat(TTL))} }

IoInit ==
    /\ ApiInit
    /\ clock = 0
    /\ session_file \in IoFiles
    /\ session_data = None
    /\ sessOp = NoOp
    /\ usersTable = <<>>
    /\ connection_info = NoCheck
    /\ assigning = {}
    /\ previous_run = None
    /\ current_user = None
    /\ access_token = None
    /\ workers = {}
    /\ afterQueue = <<>>
    /\ attempts = 0
    /\ submitted = None
    /\ login_button = "normal"
    /\ status_label = <<>>
    /\ remember_var = FALSE
    /\ lastResult = None
    /\ pendingSuccess = <<>>
    /\ window = "uninitialized"
    /\ authenticated = FALSE
    /\ user_data = None

\* the same run on a disk that works
RunNext == InitializeComponents \/ AuthenticateUser \/ ClientNext \/ Logout
SpecRun == IoInit /\ [][RunNext]_vars

\* the application over several runs: each logout restarts the authentication
RestartNext == InitializeComponents \/ AuthenticateUser \/ ClientNext \/ HandleLogout
SpecRestart == IoInit /\ [][RestartNext]_vars

IoNext ==
    \/ InitializeComponents
    \/ InitializeComponentsIo
    \/ AuthenticateUser
    \/ AuthenticateUserIo
    \/ ClientNext
    \/ HandleLoginResultIo
    \/ Logout
    \/ LogoutIo
SpecIo == IoInit /\ [][IoNext]_vars

\* the three together
Init == ApiInit /\ SessInit /\ ClientInit
Next ==
    \/ ApiNext
    \/ SessNext
    \/ InitializeComponents
    \/ AuthenticateUser
    \/ ClientNext
    \/ Logout
    \/ IoNext
    \/ SaveSessionInterrupted
    \/ CheckNetworkStatus
    \/ ThreadsNext
    \/ HandleLogout
Spec == Init /\ [][Next]_vars

(***************************************************************************)
(* Properties of the certificate API (under SpecApi)                       *)
(***************************************************************************)
Range(f) == {f[i] : i \in DOMAIN f}

\* a request to issue a certificate has been served
Served == apiReq.endpoint = "generate" /\ apiResp.status # ""

\* the last request carried no usable bearer token, or the identity service
\* rejected the token it carried
Unauthorized ==
    /\ Served
    /\ ~AuthHeaderOk(apiReq.authorization) \/ apiReq.vout = "401"

\* C1: a request to issue a certificate whose bearer token is missing,
\* malformed or rejected by verify_user is answered 401, and uploads nothing
\* and inserts nothing.
C1_UnauthorizedIs401 ==
    Unauthorized =>
        /\ apiResp.status = "401"
        /\ "upload" \notin Range(apiCalls)
        /\ "insert" \notin Range(apiCalls)

\* the part of C1 the handler keeps: such a request uploads and inserts nothing
C1_NoSideEffects ==
    Unauthorized =>
        /\ "upload" \notin Range(apiCalls)
        /\ "insert" \notin Range(apiCalls)
        /\ apiReq.newRows = {}

\* C2: when the token is verified and the upload is answered with a
\* non-success status (or not answered at all), the request is answered 500,
\* no insert is sent, and no row with that certificate id is ever in the table.
C2_UploadFailureLeavesNoRow ==
    /\ (Served /\ apiReq.vout = "200" /\ apiReq.uout \notin {"200", "201"}) =>
           /\ apiResp.status = "500"
           /\ "insert" \notin Range(apiCalls)
           /\ apiReq.certificate_id \in uploadFailed
    /\ \A row \in certificates : row.certificate_id \notin uploadFailed

\* an upload was refused while the table already holds another request's row
C2_Witness ==
    /\ Served
    /\ apiReq.vout = "200"
    /\ apiReq.uout = "403"
    /\ apiResp.status = "500"
    /\ certificates # {}

\* C3: when upload and insert both succeed, the certificate id returned is the
\* one of the row this request inserted, and the URL returned is the one stored
\* in that row and the one the object store serves the uploaded object at:
\* {base}/storage/v1/object/public/certificates/{filename}.
C3_ResponseMatchesRowAndObject ==
    (Served /\ apiResp.status = "200") =>
        /\ apiReq.key \in storage
        /\ apiResp.body.pdf_url = ServedAt(apiReq.key)
        /\ apiResp.body.pdf_url =
               ClientUrl \o <<"/storage/v1/object/public/", "certificates", "/">>
                   \o Filename(apiResp.body.user_id, apiReq.model, apiResp.body.certificate_id)
        /\ Cardinality(apiReq.newRows) = 1
        /\ \A row \in apiReq.newRows :
               /\ row.certificate_id = apiResp.body.certificate_id
               /\ row.pdf_url = apiResp.body.pdf_url

\* a second certificate issued for a model whose name had to be made safe
C3_Witness ==
    /\ Served
    /\ apiResp.status = "200"
    /\ Contains(apiReq.model, " ")
    /\ Cardinality(certificates) = 2

\* C33: the created_at a successful issuance returns is the created_at of the
\* row it inserted, even when the clock advances during the call.
C33_ReturnedCreatedAtIsStored ==
    (Served /\ apiResp.status = "200") =>
        \A row \in apiReq.newRows : apiResp.body.created_at = row.created_at

\* what holds of C33: the row holds the reading of the clock taken before the
\* insert, the response a second reading taken after it, which is never the
\* earlier one and is later by what the clock advanced in between
C33_ReturnedCreatedAtIsLaterReading ==
    (Served /\ apiResp.status = "200") =>
        /\ Cardinality(apiReq.newRows) = 1
        /\ \A row \in apiReq.newRows :
               /\ apiResp.body.created_at >= row.created_at
               /\ apiResp.body.created_at <= row.created_at + MaxSkew

\* a list request whose token was verified and whose query the database answered
Listed(endpoint) ==
    /\ apiReq.endpoint = endpoint
    /\ apiReq.vout = "200"
    /\ apiReq.sout = "200"

\* the rows of the table the query of the last request matches
MatchingRows ==
    {r \in certificates : Matches(r, apiReq.params[1].filters)}

\* C14: with a verified token, GET /certificates-by-device/{model} is answered
\* 404 when no row matches, while GET /my-certificates for an identity without
\* certificates is answered 200 with an empty list and count 0.
C14_NotFoundVersusEmptyList ==
    /\ (Listed("by_device") /\ MatchingRows = {}) => apiResp.status = "404"
    /\ (Listed("my") /\ MatchingRows = {}) =>
           /\ apiResp.status = "200"
           /\ apiResp.list.certificates = <<>>
           /\ apiResp.list.count = 0

\* what holds of C14: the empty list of /my-certificates, and a failure of
\* /certificates-by-device, which carries the 404 only inside a 500
C14_EmptyListAndWrappedNotFound ==
    /\ (Listed("by_device") /\ MatchingRows = {}) =>
           /\ apiResp.status = "500"
           /\ Contains(apiResp.detail, "404")
    /\ (Listed("my") /\ MatchingRows = {}) =>
           /\ apiResp.status = "200"
           /\ apiResp.list.certificates = <<>>
           /\ apiResp.list.count = 0

\* GET /my-certificates was answered 200 with a list
ListedMine == Listed("my") /\ apiResp.status = "200"

\* C34: for every limit >= 0 and offset >= 0, GET /my-certificates returns no
\* more than limit certificates (none for limit = 0), and only rows whose
\* user_id is the verified identity.
C34_CountWithinLimit ==
    ListedMine =>
        /\ apiResp.list.count <= apiReq.limit
        /\ Len(apiResp.list.certificates) <= apiReq.limit
        /\ \A i \in DOMAIN apiResp.list.certificates :
               apiResp.list.certificates[i].user_id = apiResp.list.user_id

\* what holds of C34: only rows of the verified identity are returned and count
\* is their number; a positive limit bounds it, and limit = 0 is not sent to
\* the database, which returns every matching row from offset on
C34_CountWithinPositiveLimit ==
    ListedMine =>
        /\ apiResp.list.count = Len(apiResp.list.certificates)
        /\ \A i \in DOMAIN apiResp.list.certificates :
               /\ apiResp.list.certificates[i].user_id = apiResp.list.user_id
               /\ apiResp.list.certificates[i] \in certificates
        /\ apiReq.limit > 0 =>
               /\ apiReq.params[1].limit = Some(apiReq.limit)
               /\ apiResp.list.count <= apiReq.limit
        /\ apiReq.limit = 0 =>
               /\ apiReq.params[1].limit = None
               /\ apiResp.list.count =
                      IF Cardinality(MatchingRows) > apiReq.offset
                      THEN Cardinality(MatchingRows) - apiReq.offset ELSE 0

\* the tokens _try_user_table_auth makes up for the rows of the Users table
TableTokens == {TableToken(r) : r \in UNION {Range(t) : t \in UsersTables}}

PresentsTableToken ==
    /\ apiResp.status # ""
    /\ AuthHeaderOk(apiReq.authorization)
    /\ RemoveAll(apiReq.authorization, "Bearer ") \in TableTokens

C16_InsertFailureLeavesDocument ==
    (/\ Served
     /\ apiReq.vout = "200"
     /\ apiReq.uout \in {"200", "201"}
     /\ apiReq.iout \notin {"200", "201"}) =>
        /\ apiResp.status = "500"
        /\ apiCalls = <<"verify", "upload", "insert">>
        /\ apiReq.key \in storage
        /\ apiReq.newRows = {}
        /\ \A row \in certificates : row.certificate_id # apiReq.certificate_id

\* an insert was refused after its upload had stored the document
C16_Witness ==
    /\ Served
    /\ apiReq.uout = "200"
    /\ apiReq.iout = "409"
    /\ apiResp.status = "500"
    /\ apiReq.key \in storage
    /\ Cardinality(storage) > Cardinality(certificates)

\* s is the first Len(s) elements of t
IsPrefix(s, t) == Len(s) <= Len(t) /\ s = SubSeq(t, 1, Len(s))

\* C27: a request to issue a certificate makes its remote calls in the order
\* verify, upload, insert, each at most once; it uploads only when the identity
\* service answered 200 to its own verify call, and inserts only when its own
\* upload was answered with success; every request with a bearer header asks
\* the identity service itself, whatever earlier requests were answered.
C27_StagesInOrderPerRequest ==
    Served =>
        /\ IsPrefix(apiCalls, <<"verify", "upload", "insert">>)
        /\ AuthHeaderOk(apiReq.authorization) <=> apiCalls # <<>>
        /\ "upload" \in Range(apiCalls) <=> apiReq.vout = "200"
        /\ "insert" \in Range(apiCalls) <=>
               (apiReq.vout = "200" /\ apiReq.uout \in {"200", "201"})
        /\ apiReq.key \in storage => apiReq.vout = "200"
        /\ apiReq.newRows # {} => apiReq.uout \in {"200", "201"}

\* a token was rejected, and the request stopped after verify, although an
\* earlier request with the same token was verified and stored its certificate
C27_Witness ==
    /\ Served
    /\ apiReq.authorization = <<"Bearer ", "tokA">>
    /\ apiReq.vout = "401"
    /\ apiCalls = <<"verify">>
    /\ \E row \in certificates : row.user_id = ServiceUsers[<<"tokA">>].id

(***************************************************************************)
(* Properties of sign_in and of the login window (under SpecClient)        *)
(***************************************************************************)
\* every result the main loop has been handed and not yet forgotten
AllHanded(P(_)) ==
    /\ \A i \in DOMAIN afterQueue : P(afterQueue[i])
    /\ lastResult # None => P(lastResult[1])

RemoteFailed(h) == h.log.remote \in {"400", "exc"}

\* C4: when the password-grant request is answered 200, sign_in returns the
\* identity of that answer with method supabase_auth and sends no query to the
\* Users table.
C4_RemoteSuccessShortCircuits ==
    AllHanded(LAMBDA h :
        h.log.remote = "200" =>
            /\ h.result.success
            /\ h.result.method = "supabase_auth"
            /\ h.result.user = Some(RemoteUser(h.email))
            /\ h.log.table = ""
            /\ "table" \notin Range(h.log.requests))

\* the main loop has handled a sign-in the identity service accepted
C4_Witness ==
    /\ lastResult # None
    /\ lastResult[1].log.remote = "200"
    /\ lastResult[1].result.method = "supabase_auth"

\* C5: when REMOTE_AUTH fails and the Users table answers with exactly one row
\* for the email, whose stored secret equals the one provided, sign_in succeeds
\* with method user_table and the access token is table_auth_ followed by the
\* id of the identity returned.
C5_TableLookupSucceeds ==
    AllHanded(LAMBDA h :
        (/\ RemoteFailed(h)
         /\ h.log.table = "200"
         /\ Len(h.log.rows) = 1
         /\ h.log.rows[1].password = h.password) =>
            /\ h.result.success
            /\ h.result.method = "user_table"
            /\ h.result.user # None
            /\ h.result.user[1].email = h.email
            /\ h.result.token = Some(<<"table_auth_">> \o h.result.user[1].id))

\* the main loop has handled a sign-in that the Users table accepted after the
\* identity service had refused it
C5_Witness ==
    /\ lastResult # None
    /\ lastResult[1].log.remote = "400"
    /\ Len(lastResult[1].log.rows) = 1
    /\ lastResult[1].result.method = "user_table"
    /\ access_token = Some(<<"table_auth_", "7">>)

BothStagesFailed(h) == RemoteFailed(h) /\ h.log.table # "" /\ ~h.result.success

\* C6: when both strategies fail the error sign_in returns is the same message
\* whatever made each stage fail; any two such results carry identical errors.
C6_SameErrorWhateverTheCause ==
    /\ AllHanded(LAMBDA h :
           BothStagesFailed(h) => h.result.error = <<"Invalid email or password">>)
    /\ AllHanded(LAMBDA g : AllHanded(LAMBDA h :
           BothStagesFailed(g) /\ BothStagesFailed(h) => g.result.error = h.result.error))

\* two failed sign-ins side by side: one met a failing table query, the other a
\* row whose secret differs or no row at all
C6_Witness ==
    /\ lastResult # None
    /\ BothStagesFailed(lastResult[1])
    /\ lastResult[1].log.table = "500"
    /\ afterQueue # <<>>
    /\ BothStagesFailed(afterQueue[1])
    /\ afterQueue[1].log.table = "200"
    /\ lastResult[1].log.remote # afterQueue[1].log.remote

IsConnectionError(result) ==
    ~result.success /\ StartsWith(result.error, "Connection error: ")

\* C7: a transport error during REMOTE_AUTH makes sign_in return a connection
\* error without asking the Users table, and a transport error during
\* TABLE_LOOKUP is reported as a connection error, not as invalid credentials.
C7_TransportErrorsSurface ==
    AllHanded(LAMBDA h :
        /\ h.log.remote = "exc" => IsConnectionError(h.result) /\ h.log.table = ""
        /\ h.log.table = "exc" => IsConnectionError(h.result))

C12_NoInternetFailsFast ==
    /\ AllHanded(LAMBDA h :
           ~h.log.reachable =>
               /\ h.result = Failure(<<"No internet connection available">>)
               /\ h.log.remote = ""
               /\ h.log.table = ""
               /\ h.log.rows = <<>>
               /\ h.log.requests = <<"probe">>
               /\ h.after = h.before)
    /\ (lastResult # None /\ ~lastResult[1].log.reachable) =>
           /\ lastResult[1].file = lastResult[1].fileBefore
           /\ lastResult[1].shown = <<"No internet connection available">>

\* a sign-in met a dead network after an earlier one had succeeded and left its
\* identity, token and session file
C12_Witness ==
    /\ lastResult # None
    /\ ~lastResult[1].log.reachable
    /\ lastResult[1].before.token # None
    /\ access_token = lastResult[1].before.token
    /\ session_file # None

\* a step of LoginSystem.logout
LogoutStep == sessOp'.op = "logout" /\ sessOp' # sessOp

C20_NoAtRejectedLocally ==
    /\ (submitted # None /\ submitted[1].noAt) =>
           /\ ~submitted[1].probed
           /\ ~submitted[1].started
    /\ \A w \in workers : \E i \in DOMAIN w.email : w.email[i] = "@"
    /\ AllHanded(LAMBDA h : \E i \in DOMAIN h.email : h.email[i] = "@")

\* an email without "@" was submitted with a password, and turned away with
\* the message for it, while an earlier attempt was still running
C20_Witness ==
    /\ submitted # None
    /\ submitted[1].noAt
    /\ status_label = <<"Please enter a valid email address">>
    /\ workers # {}

\* the Users table accepted the sign-in
TableAccepted(h) == h.result.success /\ h.result.method = "user_table"

\* C24: sign_in succeeds by the Users table only when the query returned
\* exactly one row for the email and that row's stored secret is not empty and
\* equals the secret provided; with no row, with more than one row, or with an
\* empty or different stored secret, the table strategy fails.
C24_TableNeedsExactlyOneRow ==
    AllHanded(LAMBDA h :
        TableAccepted(h) =>
            /\ Len(h.log.rows) = 1
            /\ h.log.rows[1].password # ""
            /\ h.log.rows[1].password = h.password)

\* what holds of C24: the table strategy succeeds exactly when the query
\* returned at least one row and the first row's stored secret is not empty and
\* equals the one provided, however many rows follow it
C24_TableJudgesFirstRow ==
    AllHanded(LAMBDA h :
        (h.log.table = "200") =>
            (TableAccepted(h) <=>
                /\ h.log.rows # <<>>
                /\ h.log.rows[1].password # ""
                /\ h.log.rows[1].password = h.password))

\* the access token sign_in assigns together with that identity
TokenOf(user) ==
    IF user.table_auth THEN <<"table_auth_">> \o user.id ELSE RemoteToken(user.email)

\* C30: whenever is_authenticated() is true, get_access_token() returns a
\* token, and it is the token that was issued with the identity in user_data.
C30_TokenBelongsToIdentity ==
    is_authenticated =>
        /\ access_token # None
        /\ access_token = Some(TokenOf(user_data[1]))

\* what holds of C30: whenever is_authenticated() is true there is a token, the
\* one of the sign-in that succeeded last, and an identity, the one of the
\* successful result that was handled first
C30_TokenPresentWhenAuthenticated ==
    is_authenticated =>
        /\ access_token # None
        /\ current_user # None
        /\ access_token = Some(TokenOf(current_user[1]))

\* no sign-in thread is running
Quiescent == workers = {} /\ assigning = {}

\* the two fields of the AuthManager hold the token and the identity of one
\* successful sign-in, or both are None
FieldsFromOneAttempt ==
    /\ (access_token = None) <=> (current_user = None)
    /\ access_token # None => access_token = Some(TokenOf(current_user[1]))

\* the identity given to save_session and to the success callback is the one
\* the token in AuthManager.access_token was issued with
HandedIdentityHasThatToken ==
    /\ (lastResult # None /\ lastResult[1].result.success) =>
           access_token = Some(TokenOf(lastResult[1].result.user[1]))
    /\ is_authenticated => access_token = Some(TokenOf(user_data[1]))

\* C31: however the statements of the sign-in threads interleave, once they
\* have returned access_token and current_user are those of one successful
\* sign-in, and the identity handed to the session store and to the success
\* callback is the one that token belongs to.
C31_FieldsAndHandedIdentityAgree ==
    Quiescent => FieldsFromOneAttempt /\ HandedIdentityHasThatToken

\* what holds of C31: every result handed to the main loop carries the identity
\* and the token of its own sign-in, and while no more than one sign-in thread
\* was started the fields and what is handed on agree
C31_AgreeWithOneThread ==
    /\ AllHanded(LAMBDA h :
           h.result.success => h.result.token = Some(TokenOf(h.result.user[1])))
    /\ (attempts <= 1 /\ Quiescent) => FieldsFromOneAttempt /\ HandedIdentityHasThatToken

C35_FailedSignInChangesNothing ==
    /\ AllHanded(LAMBDA h : ~h.result.success => h.after = h.before)
    /\ (lastResult # None /\ ~lastResult[1].result.success) =>
           /\ lastResult[1].file = lastResult[1].fileBefore
           /\ ~lastResult[1].remember

\* a second sign-in failed, both strategies having been tried, after the first
\* had set identity and token and its session had been saved: fields and file
\* are the first one's still
C35_Witness ==
    /\ lastResult # None
    /\ ~lastResult[1].result.success
    /\ lastResult[1].log.table # ""
    /\ lastResult[1].before.user # None
    /\ lastResult[1].before.token # None
    /\ lastResult[1].after = lastResult[1].before
    /\ lastResult[1].fileBefore # None
    /\ lastResult[1].file = lastResult[1].fileBefore

\* C17: at most one sign-in thread runs at any time, whichever of the button
\* and the Return bindings starts them.
C17_OneAttemptInFlight == Cardinality(workers) <= 1

\* the sign-in thread with that number is running
Running(id) == \E w \in workers : w.id = id

\* the main loop has handled the result of the sign-in thread with that number
Handled(id) == lastResult # None /\ lastResult[1].id = id

\* C21: every sign-in thread that was started returns and its result is handled
\* by the main loop, and whenever the Sign In button is disabled it becomes
\* normal again, so that the window never stays in "Authenticating...".
C21_EveryAttemptHandedBack ==
    /\ \A id \in 1..MaxAttempts : Running(id) ~> Handled(id)
    /\ (window = "open" /\ login_button = "disabled") ~> login_button = "normal"

\* what holds of C21: every sign-in thread returns, and a disabled button is
\* enabled again unless the window is destroyed first; a result that arrives
\* after the window was destroyed is never handled
C21_NeverStuckWhileOpen ==
    /\ \A id \in 1..MaxAttempts : Running(id) ~> ~Running(id)
    /\ (window = "open" /\ login_button = "disabled")
           ~> (login_button = "normal" \/ window = "destroyed")

\* a step of a sign-in thread: it leaves the set of running threads
ThreadStep == workers' # workers /\ workers' \subseteq workers

\* a step in which the main loop takes a handed result
HandOffStep == afterQueue # <<>> /\ afterQueue' = Tail(afterQueue) /\ lastResult' # None

\* C22: no call of handle_login, which the main loop runs, sends the
\* reachability probes; a sign-in thread touches neither the session store nor
\* the widgets; and the session file is written and the button enabled again
\* only in the step that takes a handed result.
C22_NetworkOffMainLoop ==
    [][/\ submitted' # submitted => (submitted' = None \/ ~submitted'[1].probed)
       /\ ThreadStep => UNCHANGED <<sessVars, login_button, status_label, window>>
       /\ (session_file' # session_file \/ (login_button = "disabled" /\ login_button' = "normal"))
              => HandOffStep
      ]_vars

\* what holds of C22: sign_in runs in its thread and changes no widget and no
\* session, and saving and enabling happen only on taking a handed result; the
\* probes of handle_login itself are sent on the main loop
C22_SignInOffMainLoop ==
    [][/\ ThreadStep => UNCHANGED <<sessVars, login_button, status_label, window>>
       /\ ~ThreadStep => UNCHANGED <<access_token, current_user>>
       /\ (session_file' # session_file \/ (login_button = "disabled" /\ login_button' = "normal"))
              => HandOffStep
       /\ (submitted' # None /\ submitted'[1].started) => submitted'[1].probed
      ]_vars

(***************************************************************************)
(* Properties of NetworkChecker (under SpecNetwork)                        *)
(***************************************************************************)
\* check_network_status has run
Checked == connection_info.probes # <<>>

\* C29: check_internet_connection sends its GETs to the three fixed endpoints
\* in order, returns True at the first that answers 200 and sends nothing to
\* those after it, and returns False, without raising, when none answers 200,
\* whether they answer another status or raise; check_supabase_connection
\* returns False without sending its GET when the host name of the URL does
\* not resolve, and returns True only when the GET is answered 200.
C29_ProbesStopAtFirstOk ==
    Checked =>
        LET c == connection_info
            n == Len(c.sent)
        IN  /\ n \in 1..Len(Endpoints)
            /\ c.sent = SubSeq(Endpoints, 1, n)
            /\ \A j \in 1..(n - 1) : c.probes[j] # "200"
            /\ c.internet_ok <=> c.probes[n] = "200"
            /\ c.internet_ok <=> \E i \in 1..Len(Endpoints) : c.probes[i] = "200"
            /\ ~c.internet_ok => n = Len(Endpoints)
            /\ c.internet_ok =>
                   /\ c.resolved = <<"proj.supabase.co">>
                   /\ c.requests[1] = "resolve"
                   /\ c.dns = "gaierror" => ~c.supabase_ok /\ c.requests = <<"resolve">>
                   /\ c.supabase_ok <=> (c.dns = "resolved" /\ c.status = "200")
            /\ c.text = <<"Connected - Ready to authenticate">> <=> c.supabase_ok

\* the first endpoint raised and the second answered 200, so the third was
\* not asked, and the host name of the backend did not resolve
C29_Witness ==
    /\ Checked
    /\ connection_info.probes = <<"exc", "200", "503">>
    /\ Len(connection_info.sent) = 2
    /\ connection_info.dns = "gaierror"
    /\ connection_info.text = <<"Internet OK - Auth server issues">>

(***************************************************************************)
(* Properties of the session store (under SpecSession)                     *)
(***************************************************************************)
\* a record save_session wrote with remember_me set
SavedRemembered(obj) ==
    /\ obj.user # None
    /\ obj.remember_me
    /\ obj.timestamp.iso
    /\ obj.expires # None
    /\ obj.expires[1].iso
    /\ obj.expires[1].t >= obj.timestamp.t + TTL

\* C8: a session saved with remember at time T is returned by load and reported
\* valid at every time before T + 24h, and is absent and invalid at every time
\* from T + 24h on, T + 24h itself included.  T + 24h is the expires value of
\* the record: T is the reading of the clock the expiry is computed from.
C8_ExpiresAtTwentyFourHours ==
    /\ (/\ sessOp.op = "load"
        /\ sessOp.found # None
        /\ sessOp.found[1].b64
        /\ sessOp.found[1].data.json
        /\ SavedRemembered(sessOp.found[1].data.obj)) =>
           IF sessOp.at < sessOp.found[1].data.obj.expires[1].t
           THEN sessOp.ret = Some(sessOp.found[1].data.obj)
           ELSE sessOp.ret = None
    /\ (/\ sessOp.op = "is_valid"
        /\ session_data # None
        /\ SavedRemembered(session_data[1])) =>
           (sessOp.valid <=> sessOp.at < session_data[1].expires[1].t)

\* what holds of the boundary: a saved session is loaded and valid before its
\* expires value, invalid from it on, and no longer loaded after it
C8_AroundExpires ==
    /\ (/\ sessOp.op = "load"
        /\ sessOp.found # None
        /\ sessOp.found[1].b64
        /\ sessOp.found[1].data.json
        /\ SavedRemembered(sessOp.found[1].data.obj)) =>
           /\ sessOp.at < sessOp.found[1].data.obj.expires[1].t
                  => sessOp.ret = Some(sessOp.found[1].data.obj)
           /\ sessOp.at > sessOp.found[1].data.obj.expires[1].t => sessOp.ret = None
    /\ (/\ sessOp.op = "is_valid"
        /\ session_data # None
        /\ SavedRemembered(session_data[1])) =>
           (sessOp.valid <=> sessOp.at < session_data[1].expires[1].t)

\* the file decodes to a record with an identity, an ISO timestamp and an ISO
\* expiry
WellFormed(file) ==
    /\ file.b64
    /\ file.data.json
    /\ file.data.obj.user # None
    /\ file.data.obj.timestamp.iso
    /\ file.data.obj.expires # None
    /\ file.data.obj.expires[1].iso

\* the session store has been called, last to save, load or clear
FileTouched == sessOp.op \in {"save", "load", "clear"}

LoadedFile == sessOp.op = "load" /\ sessOp.found # None

\* C19: load on a file that does not decode, is malformed or lacks its expiry
\* returns no session and deletes the file, and so does load on a well-formed
\* file that has expired (the time of the call is at or past its expiry);
\* load never raises.
C19_LoadSelfHeals ==
    /\ sessOp.op = "load" => ~sessOp.raised
    /\ (LoadedFile /\ ~WellFormed(sessOp.found[1])) =>
           sessOp.ret = None /\ session_file = None
    /\ (/\ LoadedFile
        /\ WellFormed(sessOp.found[1])
        /\ sessOp.at >= sessOp.found[1].data.obj.expires[1].t) =>
           sessOp.ret = None /\ session_file = None

\* what holds of C19: load returns nothing and deletes the file when the text
\* does not decode, when the expires key is missing or is no date, and when the
\* time of the call is past the expiry; it never raises
C19_LoadHealsWhatItTests ==
    /\ sessOp.op = "load" => ~sessOp.raised
    /\ (/\ LoadedFile
        /\ \/ ~sessOp.found[1].b64
           \/ ~sessOp.found[1].data.json
           \/ sessOp.found[1].data.obj.expires = None
           \/ ~sessOp.found[1].data.obj.expires[1].iso
           \/ sessOp.at > sessOp.found[1].data.obj.expires[1].t) =>
           /\ sessOp.ret = None
           /\ session_file = None
           /\ session_data = None

\* save_session returned last, with remember_me set
SavedWithRemember ==
    /\ sessOp.op = "save"
    /\ session_data # None
    /\ session_data[1].remember_me

\* C26: the record save_session builds with remember_me set, in session_data
\* and in the file, has expires = timestamp + 24h exactly, also when the clock
\* advances while save_session runs.
C26_ExpiresIsIssuedPlusTTL ==
    SavedWithRemember =>
        /\ session_data[1].expires[1].t = session_data[1].timestamp.t + TTL
        /\ session_file = Some(b64encode(json_dumps(session_data[1])))

\* what holds of C26: timestamp is the first reading of the clock and expires
\* a later reading plus 24h, so that expires exceeds timestamp + 24h by what the
\* clock advanced between the two readings
C26_ExpiresIsSecondReadingPlusTTL ==
    SavedWithRemember =>
        /\ session_data[1].timestamp.t = sessOp.at
        /\ session_data[1].expires[1].t >= session_data[1].timestamp.t + TTL
        /\ session_data[1].expires[1].t <= session_data[1].timestamp.t + TTL + MaxSkew
        /\ session_file = Some(b64encode(json_dumps(session_data[1])))

\* the process was killed within save_session, and nothing has touched the
\* session store since
Interrupted == sessOp.op = "save_interrupted"

\* C28: when the process is killed at any point of save_session, the session
\* file afterwards holds the complete previous content or the complete new
\* record, never a part of one.
C28_SaveIsAtomic ==
    Interrupted =>
        \/ session_file = sessOp.found
        \/ session_file = Some(b64encode(json_dumps(sessOp.ret[1])))

\* what holds of C28: after such a kill the file holds the previous content,
\* the new record, or an empty or partial text that does not decode, and the
\* next load_session returns no session for such a text and removes the file
C28_PartialFileIsDiscarded ==
    /\ Interrupted =>
           \/ session_file = sessOp.found
           \/ session_file = Some(b64encode(json_dumps(sessOp.ret[1])))
           \/ session_file \in PartialFiles
    /\ (sessOp.op = "load" /\ sessOp.prev = "save_interrupted"
            /\ sessOp.found \in PartialFiles) =>
           sessOp.ret = None /\ session_file = None

HasRead == sessOp.op \in {"load", "check_existing"} /\ sessOp.existed

\* a step that reads the session file, and a step that writes it
ReadStep == sessOp' # sessOp /\ HasRead'
WriteStep == sessOp' # sessOp /\ sessOp'.op = "save"

\* C25: in one run of the process the session file is read at most once, at
\* startup, and it is written only by the handling of a successful sign-in,
\* once for each.
C25_ReadOnceWrittenPerSignIn ==
    [][/\ ReadStep => ~HasRead /\ window \in {"uninitialized", "unbuilt"}
       /\ WriteStep => HandOffStep /\ Head(afterQueue).result.success
       /\ session_file' \notin {session_file, None} => WriteStep
      ]_vars

\* what holds of C25: the file is read at startup only, once when LoginSystem
\* is constructed and once more when the login window is built, and it is
\* written only by the handling of a successful sign-in, once for each
C25_ReadTwiceAtStartup ==
    [][/\ ReadStep => window \in {"uninitialized", "unbuilt"} /\ window' # window
       /\ WriteStep => HandOffStep /\ Head(afterQueue).result.success
       /\ session_file' \notin {session_file, None} => WriteStep
      ]_vars

(***************************************************************************)
(* Properties of the client process on a failing disk (under SpecIo)       *)
(***************************************************************************)
\* the last call of the session store met an I/O error
Faulted(ops) == sessOp.op \in ops /\ sessOp.fault # {}

\* C23: no I/O error on the session file leaves save, load or clear; a load
\* that could not read returns no session, a clear that could not delete leaves
\* the store without a session, and a successful sign-in whose session could
\* not be written is still handed over and makes the coordinator authenticated.
C23_IoErrorsLeaveNoSession ==
    /\ ~sessOp.raised
    /\ Faulted({"load", "check_existing"}) => sessOp.ret = None
    /\ Faulted({"logout"}) => session_data = None /\ ~is_valid_session
    /\ Faulted({"save"}) =>
           \/ window = "open" /\ pendingSuccess # <<>>
           \/ window = "destroyed" /\ authenticated

\* what holds of C23: no I/O error leaves the call, a load that met one returns
\* no session, a save that met one leaves session_data as it was and the
\* sign-in goes on, and a clear that met one leaves both the file and
\* session_data as they were
C23_IoErrorsNeverFatal ==
    /\ ~sessOp.raised
    /\ Faulted({"load", "check_existing"}) => sessOp.ret = None
    /\ Faulted({"logout"}) => session_file = sessOp.found
    /\ Faulted({"save"}) =>
           /\ \/ window = "open" /\ pendingSuccess # <<>>
              \/ window = "destroyed" /\ authenticated
           /\ session_file = sessOp.found \/ session_file \in PartialFiles

(***************************************************************************)
(* Properties of the client process from its start (under SpecStart)       *)
(***************************************************************************)
\* check_existing_session found a well-formed session, remembered and not yet
\* at its expiry
FoundRemembered ==
    /\ sessOp.op = "check_existing"
    /\ sessOp.found # None
    /\ sessOp.found[1].b64
    /\ sessOp.found[1].data.json
    /\ SavedRemembered(sessOp.found[1].data.obj)
    /\ sessOp.at < sessOp.found[1].data.obj.expires[1].t

\* C11: when the process starts on a session file holding a valid, remembered
\* session, authenticate_user ends authenticated as the stored identity without
\* a probe or a request to the identity service, and nothing else makes the
\* coordinator authenticated without a successful sign_in.
C11_ResumeAuthenticates ==
    /\ FoundRemembered =>
           /\ window = "destroyed"
           /\ authenticated
           /\ user_data = sessOp.found[1].data.obj.user
           /\ attempts = 0
           /\ workers = {}
    /\ (authenticated /\ ~FoundRemembered) =>
           /\ attempts > 0
           /\ access_token # None

\* what holds of C11: such a start sends nothing and closes the window, and
\* only a handled successful sign_in makes the coordinator authenticated
C11_ResumeSendsNothing ==
    /\ FoundRemembered =>
           /\ window = "destroyed"
           /\ current_user = sessOp.found[1].data.obj.user
           /\ attempts = 0
           /\ workers = {}
           /\ afterQueue = <<>>
    /\ authenticated =>
           /\ attempts > 0
           /\ access_token # None
           /\ user_data # None

====
